---- MODULE Spec2Model ----
(***************************************************************************)
(* Deposit-request lifecycle of the Telegram bot in src/main.py:           *)
(* the per-user conversational form (ConversationHandler), the request     *)
(* rows of src/models.py, the admins' lock / approve / reject buttons and  *)
(* the reject -> resubmit correction loop.                                 *)
(*                                                                         *)
(* Every webhook POST awaits Application.process_update directly           *)
(* (main.py:305-307), so handlers of different events interleave at       *)
(* their awaits.  A handler in flight is an element of the bag `tasks`;    *)
(* its `pc` is the await it is suspended at.                               *)
(*                                                                         *)
(* The transactions table is durable and lives outside the process         *)
(* (lifespan only creates missing tables, main.py:281), so the state after *)
(* start-up contains the rows already stored.                              *)
(***************************************************************************)
EXTENDS Integers, Sequences, FiniteSets, Bags, TLC

\* ------------------------------------------------------------------------
\* Bounds of the model
\* ------------------------------------------------------------------------
MaxTasks == 2      \* handlers in flight at once
MaxEvents == 5     \* events from outside: updates, timeouts, rows lost

\* ------------------------------------------------------------------------
\* Actors, chats, inputs
\* ------------------------------------------------------------------------
Users == {"u1"}
Admins == {"a1", "a2"}
Persons == Users \cup Admins

ADMIN_DEPOSIT_GROUP_ID == "G"

\* A private chat has the id of its user.
ConvKeys == {<<p, p>> : p \in Persons} \cup {<<ADMIN_DEPOSIT_GROUP_ID, a>> : a \in Admins}

END == -1
ASKING_ID == 0
ASKING_AMOUNT == 1
ASKING_SCREENSHOT == 2

NULL == "NULL"

\* Kinds of update the webhook receives: a text or photo message, the
\* /cancel command, and button clicks by the prefix of their callback data
\* ("token": callback data that no pattern of lines 286-298 matches).
UpdateKinds ==
    {"text", "photo", "/cancel", "deposit_start", "resubmit", "lock_req",
     "approve_req", "reject_req", "token"}

\* Mutant of Dispatch: the photo handler is tried in every state of the form.
Dispatch_PhotoAnywhere(state, private, kind) ==
    CASE kind = "deposit_start" ->
            IF state = END THEN "deposit_start" ELSE "none"
      [] kind = "resubmit" ->
            IF state = END THEN "request_resubmission" ELSE "none"
      [] kind = "text" ->
            IF private /\ state = ASKING_ID THEN "receive_xbet_id"
            ELSE IF private /\ state = ASKING_AMOUNT THEN "receive_amount"
            ELSE "none"
      [] kind = "photo" ->
            IF private /\ state # END THEN "receive_screenshot" ELSE "none"
      [] kind = "/cancel" -> IF state # END THEN "cancel" ELSE "none"
      [] kind = "lock_req" -> "lock_request"
      [] kind = "approve_req" -> "approve_request"
      [] kind = "reject_req" -> "reject_request_options"
      [] OTHER -> "none"

\* The handler Application.process_update picks for an update of kind `kind`
\* whose conversation key is in state `state` (lines 285-298): inside a
\* conversation only the handlers of its state and the fallback are tried,
\* outside of it only the entry points; the button handlers registered after
\* the conversation handler take what it leaves.  "none": no handler runs.
Dispatch(state, private, kind) ==
    CASE kind = "deposit_start" ->
            IF state = END THEN "deposit_start" ELSE "none"
      [] kind = "resubmit" ->
            IF state = END THEN "request_resubmission" ELSE "none"
      [] kind = "text" ->
            IF private /\ state = ASKING_ID THEN "receive_xbet_id"
            ELSE IF private /\ state = ASKING_AMOUNT THEN "receive_amount"
            ELSE "none"
      [] kind = "photo" ->
            IF private /\ state = ASKING_SCREENSHOT THEN "receive_screenshot"
            ELSE "none"
      [] kind = "/cancel" -> IF state # END THEN "cancel" ELSE "none"
      [] kind = "lock_req" -> "lock_request"
      [] kind = "approve_req" -> "approve_request"
      [] kind = "reject_req" -> "reject_request_options"
      [] OTHER -> "none"

\* Message texts are character sequences.
XbetTexts == {<<"7">>}
AmountTexts == {<<"1", "5">>, <<"-", "5">>, <<"a">>}
Photos == {"p1"}
ReasonCodes == {"wrong_id", "wrong_amount", "wrong_slip", "other"}

\* The reason codes request_resubmission has a text for (line 239).
reasons == {"wrong_id", "wrong_amount", "wrong_slip"}

\* ------------------------------------------------------------------------
\* float(): parse of a message text (optional sign, decimal digits)
\* ------------------------------------------------------------------------
Digits == <<"0", "1", "2", "3", "4", "5", "6", "7", "8", "9">>

IsDigit(c) == \E i \in 1..10 : Digits[i] = c

DigitVal(c) == (CHOOSE i \in 1..10 : Digits[i] = c) - 1

RECURSIVE DigitsVal(_)
DigitsVal(s) ==
    IF s = <<>> THEN 0
    ELSE 10 * DigitsVal(SubSeq(s, 1, Len(s) - 1)) + DigitVal(s[Len(s)])

AllDigits(s) == Len(s) > 0 /\ \A i \in 1..Len(s) : IsDigit(s[i])

\* float(text): [ok |-> TRUE, val |-> n] or a ValueError.
float(s) ==
    IF AllDigits(s) THEN [ok |-> TRUE, val |-> DigitsVal(s)]
    ELSE IF Len(s) > 1 /\ s[1] = "-" /\ AllDigits(Tail(s))
         THEN [ok |-> TRUE, val |-> 0 - DigitsVal(Tail(s))]
    ELSE IF Len(s) > 1 /\ s[1] = "+" /\ AllDigits(Tail(s))
         THEN [ok |-> TRUE, val |-> DigitsVal(Tail(s))]
    ELSE [ok |-> FALSE, val |-> 0]

\* ------------------------------------------------------------------------
\* Values held in context.user_data for the key 'amount': absent, the text of
\* a message (receive_amount) or the Decimal of a row (request_resubmission).
\* ------------------------------------------------------------------------
NoAmount == [k |-> "absent", t |-> <<>>, n |-> 0]
TextAmount(t) == [k |-> "text", t |-> t, n |-> 0]
DecimalAmount(n) == [k |-> "decimal", t |-> <<>>, n |-> n]

\* Python truthiness of the value: `if amount:`.
AmountTruthy(a) == (a.k = "text" /\ a.t # <<>>) \/ (a.k = "decimal" /\ a.n # 0)

\* float(amount) for a value of user_data.
FloatOfAmount(a) ==
    IF a.k = "decimal" THEN [ok |-> TRUE, val |-> a.n]
    ELSE IF a.k = "text" THEN float(a.t)
    ELSE [ok |-> FALSE, val |-> 0]

\* float(amount if amount else 0), line 85.
NewAmount(a) == IF AmountTruthy(a) THEN FloatOfAmount(a) ELSE [ok |-> TRUE, val |-> 0]

\* An empty user_data (after .clear()).  "" and <<>> stand for a missing key.
EmptyData ==
    [mode |-> "", request_id |-> "", xbet_id |-> <<>>, amount |-> NoAmount,
     photo_id |-> ""]

\* ------------------------------------------------------------------------
\* The transactions table (src/models.py)
\* ------------------------------------------------------------------------
\* Attributes of the mapped class Transaction.
TransactionColumns ==
    {"transaction_id", "user_id", "request_id", "type", "amount", "status",
     "admin_id", "rejection_reason", "admin_chat_id", "admin_message_id",
     "xbet_id_from_user", "created_at", "updated_at", "user"}

\* Transaction(**kwargs): the declarative constructor raises TypeError for a
\* keyword that is no attribute of the class.
Transaction(kwargs) == kwargs \subseteq TransactionColumns

\* Keywords finalize_submission passes for a new submission.
NewKwargs ==
    {"user_id", "request_id", "type", "amount", "status", "xbet_id_from_user",
     "photo_file_id"}

RequestIds == {"DEP-1", "DEP-2"}

\* The result of scalar_one_or_none() when no row matches.
NoRow ==
    [transaction_id |-> 0, user_id |-> NULL, request_id |-> "", amount |-> 0,
     status |-> "", admin_id |-> NULL, rejection_reason |-> NULL,
     admin_chat_id |-> NULL, admin_message_id |-> 0, xbet_id_from_user |-> <<>>]

\* A row as a submission leaves it: pending, unclaimed, posted to the group.
StoredRow(pk, rid, owner, msg) ==
    [transaction_id |-> pk, user_id |-> owner, request_id |-> rid, amount |-> 10,
     status |-> "pending", admin_id |-> NULL, rejection_reason |-> NULL,
     admin_chat_id |-> ADMIN_DEPOSIT_GROUP_ID, admin_message_id |-> msg,
     xbet_id_from_user |-> <<"3">>]

VARIABLES
    db,         \* rows of the transactions table
    user_data,  \* context.user_data, one dict per Telegram user
    conv,       \* ConversationHandler state per (chat id, user id)
    live,       \* ids of the request messages present in the admin group
    nextMsg,    \* id the next message of the admin group gets
    tasks,      \* bag of handlers suspended at an await
    events,     \* number of events from outside so far
    last,       \* the private-chat message received last, and its handler
    dm          \* bag of the direct messages bot.send_message sent to users

vars == <<db, user_data, conv, live, nextMsg, tasks, events, last, dm>>

\* select(Transaction).filter_by(request_id=...) ... scalar_one_or_none()
Select(rid) ==
    IF \E r \in db : r.request_id = rid
    THEN CHOOSE r \in db : r.request_id = rid
    ELSE NoRow

\* The stored row with primary key pk (session.refresh), NoRow when it is gone.
Stored(pk) ==
    IF \E r \in db : r.transaction_id = pk
    THEN CHOOSE r \in db : r.transaction_id = pk
    ELSE NoRow

\* Attributes the unit of work sees as changed since the object was loaded.
Dirty(loaded, obj) ==
    {c \in {"user_id", "request_id", "amount", "status", "admin_id",
            "rejection_reason", "admin_chat_id", "admin_message_id",
            "xbet_id_from_user"} : obj[c] # loaded[c]}

\* Mutant of Updated: the UPDATE also writes the request id of another row.
Updated_SharesRequestId(cur, loaded, obj) ==
    LET W(c) == IF obj[c] # loaded[c] THEN obj[c] ELSE cur[c]
    IN [transaction_id |-> cur.transaction_id, user_id |-> W("user_id"),
        request_id |-> "DEP-1", amount |-> W("amount"),
        status |-> W("status"), admin_id |-> W("admin_id"),
        rejection_reason |-> W("rejection_reason"),
        admin_chat_id |-> W("admin_chat_id"),
        admin_message_id |-> W("admin_message_id"),
        xbet_id_from_user |-> W("xbet_id_from_user")]

\* The row after UPDATE ... SET <dirty columns> WHERE transaction_id = pk.
Updated(cur, loaded, obj) ==
    LET W(c) == IF obj[c] # loaded[c] THEN obj[c] ELSE cur[c]
    IN [transaction_id |-> cur.transaction_id, user_id |-> W("user_id"),
        request_id |-> W("request_id"), amount |-> W("amount"),
        status |-> W("status"), admin_id |-> W("admin_id"),
        rejection_reason |-> W("rejection_reason"),
        admin_chat_id |-> W("admin_chat_id"),
        admin_message_id |-> W("admin_message_id"),
        xbet_id_from_user |-> W("xbet_id_from_user")]

\* session.commit() of an object loaded as `loaded` and now `obj`: raises
\* (StaleDataError) when there is something to write and the row is gone.
CommitOk(loaded, obj) ==
    Dirty(loaded, obj) = {} \/ Stored(loaded.transaction_id) # NoRow

\* Mutant of Commit: the changed object is stored as a further row.
Commit_AddsRow(loaded, obj) ==
    IF Dirty(loaded, obj) = {} THEN db
    ELSE db \cup {[obj EXCEPT !.transaction_id =
                      1 + Cardinality({r.transaction_id : r \in db})]}

Commit(loaded, obj) ==
    IF Dirty(loaded, obj) = {} \/ Stored(loaded.transaction_id) = NoRow THEN db
    ELSE (db \ {Stored(loaded.transaction_id)})
         \cup {Updated(Stored(loaded.transaction_id), loaded, obj)}

\* ------------------------------------------------------------------------
\* Handlers in flight
\* ------------------------------------------------------------------------
Task(h, pc, actor, key, reason, tx, ud) ==
    [h |-> h, pc |-> pc, actor |-> actor, key |-> key, reason |-> reason,
     tx |-> tx, ud |-> ud]

Running == BagToSet(tasks)
Spawn(t) == tasks (+) SetToBag({t})
Retire(t) == tasks (-) SetToBag({t})
Move(t, u) == (tasks (-) SetToBag({t})) (+) SetToBag({u})
SlotFree == BagCardinality(tasks) < MaxTasks

Private(p) == <<p, p>>
Group(a) == <<ADMIN_DEPOSIT_GROUP_ID, a>>

\* One more event from outside: process_telegram_update (main.py:305-307)
\* takes an update, the store loses a row, or a conversation times out.
Delivered == events < MaxEvents /\ events' = events + 1

\* An update of kind `kind` arrives for the conversation key `key` and
\* process_update hands it to `handler`.
Received(key, kind, handler) ==
    /\ Dispatch(conv[key], key[1] # ADMIN_DEPOSIT_GROUP_ID, kind) = handler
    /\ Delivered
    /\ last' = IF kind \in {"text", "photo"} /\ key[1] # ADMIN_DEPOSIT_GROUP_ID
               THEN [update |-> kind, key |-> key, handler |-> handler]
               ELSE last

\* The updates that reach a key: a user's private chat carries messages,
\* commands and the Deposit button of start (lines 158-160, 294); the admin
\* group carries messages, commands and the buttons of the request messages.
Updates(key) ==
    IF key[1] # ADMIN_DEPOSIT_GROUP_ID
    THEN {"text", "photo", "/cancel", "deposit_start"}
    ELSE UpdateKinds \ {"deposit_start"}

\* context.bot.send_message(chat_id=<user>, ...): the message of line 140
\* ("submitted"), 218 ("approved") or 273 ("returned") about request rid.
Notice(to, kind, rid) == SetToBag({[to |-> to, kind |-> kind, rid |-> rid]})

Init ==
    /\ db = {StoredRow(1, "DEP-1", "u1", 1), StoredRow(2, "DEP-2", "u1", 2)}
    /\ user_data = [p \in Persons |-> EmptyData]
    /\ conv = [k \in ConvKeys |-> END]
    /\ live = {1, 2}
    /\ nextMsg = 3
    /\ tasks = EmptyBag
    /\ events = 0
    /\ last = [update |-> "", key |-> <<"", "">>, handler |-> ""]
    /\ dm = EmptyBag

\* ------------------------------------------------------------------------
\* finalize_submission (main.py:59-145)
\* ------------------------------------------------------------------------
\* Lines 61-89, up to the first await: the values are read from user_data, then
\* either the row to update is selected or a new object is constructed.
\* `ud` is user_data as the calling handler left it.
\* A new submission whose constructor or float() raises has awaited nothing and
\* used no connection: its finally block (lines 142-145) runs at once.
finalize_submission(p, ud) ==
    IF ud.mode = "update"
    THEN /\ SlotFree
         /\ user_data' = [user_data EXCEPT ![p] = ud]
         /\ tasks' = Spawn(Task("finalize", "commit", p, Private(p), "",
                                Select(ud.request_id), ud))
         /\ UNCHANGED <<db, conv, live, nextMsg, dm>>
    ELSE IF Transaction(NewKwargs) /\ NewAmount(ud.amount).ok
    THEN /\ SlotFree
         /\ user_data' = [user_data EXCEPT ![p] = ud]
         /\ \E rid \in RequestIds :
              tasks' = Spawn(Task("finalize", "commit", p, Private(p), "",
                                  [NoRow EXCEPT !.user_id = p, !.request_id = rid,
                                                !.amount = NewAmount(ud.amount).val,
                                                !.status = "pending",
                                                !.xbet_id_from_user = ud.xbet_id],
                                  ud))
         /\ UNCHANGED <<db, conv, live, nextMsg, dm>>
    ELSE /\ user_data' = [user_data EXCEPT ![p] = EmptyData]
         /\ conv' = [conv EXCEPT ![Private(p)] = END]
         /\ UNCHANGED <<db, live, nextMsg, tasks, dm>>

\* The object of an update after lines 76-79, and whether float() raised.
Corrected(tx, ud) ==
    LET a == IF ud.xbet_id # <<>> THEN [tx EXCEPT !.status = "pending",
                                                  !.xbet_id_from_user = ud.xbet_id]
             ELSE [tx EXCEPT !.status = "pending"]
    IN IF AmountTruthy(ud.amount)
       THEN [a EXCEPT !.amount = FloatOfAmount(ud.amount).val]
       ELSE a

CorrectionRaises(ud) == AmountTruthy(ud.amount) /\ ~FloatOfAmount(ud.amount).ok

\* Lines 75-92: an update sets the attributes of the row read, a new
\* submission INSERTs (refused by the unique constraint on request_id,
\* models.py:19); then commit and refresh.
finalize_commit(t) ==
    /\ t \in Running /\ t.h = "finalize" /\ t.pc = "commit"
    /\ IF t.ud.mode # "update"
       THEN IF Select(t.tx.request_id) # NoRow
            THEN /\ db' = db
                 /\ tasks' = Move(t, [t EXCEPT !.pc = "finally"])
            ELSE LET pk == 1 + Cardinality({r.transaction_id : r \in db})
                     row == [t.tx EXCEPT !.transaction_id = pk]
                 IN /\ db' = db \cup {row}
                    /\ tasks' = Move(t, [t EXCEPT !.pc = "notify", !.tx = row])
       ELSE IF t.tx = NoRow \/ CorrectionRaises(t.ud)
               \/ ~CommitOk(t.tx, Corrected(t.tx, t.ud))
               \/ Stored(t.tx.transaction_id) = NoRow
       THEN \* refresh(None), ValueError, StaleDataError: nothing is written
            /\ db' = db
            /\ tasks' = Move(t, [t EXCEPT !.pc = "finally"])
       ELSE /\ db' = Commit(t.tx, Corrected(t.tx, t.ud))
            /\ tasks' = Move(t, [t EXCEPT !.pc = "notify",
                    !.tx = Updated(Stored(t.tx.transaction_id), t.tx,
                                   Corrected(t.tx, t.ud))])
    /\ UNCHANGED <<user_data, conv, live, nextMsg, events, last, dm>>

\* Lines 95-140: replace or post the admin-group message, commit the handle.
\* `sent` is whether a send_photo got through (the first one, or the one of the
\* except branch).
finalize_notify(t, sent) ==
    /\ t \in Running /\ t.h = "finalize" /\ t.pc = "notify"
    /\ LET replace == /\ user_data[t.actor].mode = "update"
                      /\ t.tx.admin_chat_id # NULL
                      /\ t.tx.admin_message_id # 0
           deleted == IF replace THEN {t.tx.admin_message_id} \cap live ELSE {}
           obj == [t.tx EXCEPT !.admin_chat_id = ADMIN_DEPOSIT_GROUP_ID,
                               !.admin_message_id = nextMsg]
       IN IF sent
          THEN /\ live' = (live \ deleted) \cup {nextMsg}
               /\ nextMsg' = nextMsg + 1
               /\ db' = Commit(t.tx, obj)
               /\ dm' = IF CommitOk(t.tx, obj)
                         THEN dm (+) Notice(t.actor, "submitted", t.tx.request_id)
                         ELSE dm
          ELSE /\ live' = live \ deleted
               /\ UNCHANGED <<nextMsg, db, dm>>
    /\ tasks' = Move(t, [t EXCEPT !.pc = "finally"])
    /\ UNCHANGED <<user_data, conv, events, last>>

\* Mutant of finalize_finally: the handler ends without its finally block.
finalize_finally_KeepsSession(t) ==
    /\ t \in Running /\ t.h = "finalize" /\ t.pc = "finally"
    /\ tasks' = Retire(t)
    /\ UNCHANGED <<db, user_data, conv, live, nextMsg, events, last, dm>>

\* Lines 142-145: the finally block ends the conversation of the calling chat.
finalize_finally(t) ==
    /\ t \in Running /\ t.h = "finalize" /\ t.pc = "finally"
    /\ user_data' = [user_data EXCEPT ![t.actor] = EmptyData]
    /\ conv' = [conv EXCEPT ![t.key] = END]
    /\ tasks' = Retire(t)
    /\ UNCHANGED <<db, live, nextMsg, events, last, dm>>

\* ------------------------------------------------------------------------
\* The form: handlers of deposit_conv_handler (main.py:162-197, 285-293)
\* ------------------------------------------------------------------------
\* Entry point, reachable only while the (chat, user) key has no state.
deposit_start(p) ==
    /\ Received(Private(p), "deposit_start", "deposit_start")
    /\ user_data' = [user_data EXCEPT ![p] = [EmptyData EXCEPT !.mode = "new"]]
    /\ conv' = [conv EXCEPT ![Private(p)] = ASKING_ID]
    /\ UNCHANGED <<db, live, nextMsg, tasks, dm>>

receive_xbet_id(p, text) ==
    /\ Received(Private(p), "text", "receive_xbet_id")
    /\ LET ud == [user_data[p] EXCEPT !.xbet_id = text]
       IN IF ud.mode = "update" /\ ud.photo_id # ""
          THEN finalize_submission(p, ud)
          ELSE /\ user_data' = [user_data EXCEPT ![p] = ud]
               /\ conv' = [conv EXCEPT ![Private(p)] =
                             IF ud.mode = "update" THEN ASKING_SCREENSHOT
                             ELSE ASKING_AMOUNT]
               /\ UNCHANGED <<db, live, nextMsg, tasks, dm>>

receive_amount(p, text) ==
    /\ Received(Private(p), "text", "receive_amount")
    /\ LET ud == [user_data[p] EXCEPT !.amount = TextAmount(text)]
       IN IF ud.mode = "update" /\ ud.photo_id # ""
          THEN finalize_submission(p, ud)
          ELSE /\ user_data' = [user_data EXCEPT ![p] = ud]
               /\ conv' = [conv EXCEPT ![Private(p)] = ASKING_SCREENSHOT]
               /\ UNCHANGED <<db, live, nextMsg, tasks, dm>>

receive_screenshot(p, photo) ==
    /\ Received(Private(p), "photo", "receive_screenshot")
    /\ finalize_submission(p, [user_data[p] EXCEPT !.photo_id = photo])

\* Mutant of cancel: the conversation ends, the collected fields stay.
cancel_KeepsFields(key) ==
    /\ Received(key, "/cancel", "cancel")
    /\ conv' = [conv EXCEPT ![key] = END]
    /\ UNCHANGED <<db, user_data, live, nextMsg, tasks, dm>>

\* Fallback /cancel, in whatever chat the key has a state.
cancel(key) ==
    /\ Received(key, "/cancel", "cancel")
    /\ user_data' = [user_data EXCEPT ![key[2]] = EmptyData]
    /\ conv' = [conv EXCEPT ![key] = END]
    /\ UNCHANGED <<db, live, nextMsg, tasks, dm>>

\* ------------------------------------------------------------------------
\* Admin buttons (main.py:199-274, 296-298)
\* ------------------------------------------------------------------------
\* lock_req:<rid>.  Lines 200-204: the row is read and tested; the write
\* follows after the awaits of line 205.
lock_request(a, rid) ==
    /\ SlotFree
    /\ Received(Group(a), "lock_req", "lock_request")
    /\ IF Select(rid) # NoRow /\ Select(rid).status = "pending"
       THEN tasks' = Spawn(Task("lock", "commit", a, Group(a), "", Select(rid),
                                EmptyData))
       ELSE tasks' = tasks    \* "Already handled."
    /\ UNCHANGED <<db, user_data, conv, live, nextMsg, dm>>

\* Line 205: the object read earlier is marked locked and committed.
Locked(tx, a) == [tx EXCEPT !.status = "locked", !.admin_id = a]

lock_commit(t) ==
    /\ t \in Running /\ t.h = "lock" /\ t.pc = "commit"
    /\ db' = Commit(t.tx, Locked(t.tx, t.actor))
    /\ tasks' = Retire(t)
    /\ UNCHANGED <<user_data, conv, live, nextMsg, events, last, dm>>

\* The test of lines 216 and 229.
OwnsLocked(tx, a) == tx # NoRow /\ tx.status = "locked" /\ tx.admin_id = a

\* approve_req:<rid>, lines 212-216.
approve_request(a, rid) ==
    /\ SlotFree
    /\ Received(Group(a), "approve_req", "approve_request")
    /\ IF OwnsLocked(Select(rid), a)
       THEN tasks' = Spawn(Task("approve", "commit", a, Group(a), "", Select(rid),
                                EmptyData))
       ELSE tasks' = tasks    \* "Cannot approve."
    /\ UNCHANGED <<db, user_data, conv, live, nextMsg, dm>>

\* Lines 217-221: the commit, then the message to the user of the request.
approve_commit(t) ==
    /\ t \in Running /\ t.h = "approve" /\ t.pc = "commit"
    /\ db' = Commit(t.tx, [t.tx EXCEPT !.status = "approved"])
    /\ dm' = IF CommitOk(t.tx, [t.tx EXCEPT !.status = "approved"])
              THEN dm (+) Notice(t.tx.user_id, "approved", t.tx.request_id)
              ELSE dm
    /\ tasks' = Retire(t)
    /\ UNCHANGED <<user_data, conv, live, nextMsg, events, last>>

\* reject_req:<rid>, lines 225-230: the row is read and tested.
reject_request_options(a, rid) ==
    /\ SlotFree
    /\ Received(Group(a), "reject_req", "reject_request_options")
    /\ IF OwnsLocked(Select(rid), a)
       THEN tasks' = Spawn(Task("reject", "markup", a, Group(a), "", Select(rid),
                                EmptyData))
       ELSE tasks' = tasks    \* "Cannot reject."
    /\ UNCHANGED <<db, user_data, conv, live, nextMsg, dm>>

\* Lines 231-233: the reason buttons are shown; nothing is stored.
reject_markup(t) ==
    /\ t \in Running /\ t.h = "reject" /\ t.pc = "markup"
    /\ tasks' = Retire(t)
    /\ UNCHANGED <<db, user_data, conv, live, nextMsg, events, last, dm>>

\* resubmit:<reason>:<rid>, an entry point of the conversation handler: it runs
\* when the (group chat, admin) key has no state.  Lines 236-244.
request_resubmission(a, reason, rid) ==
    /\ SlotFree
    /\ Received(Group(a), "resubmit", "request_resubmission")
    /\ IF Select(rid) # NoRow
       THEN tasks' = Spawn(Task("resubmit", "notify", a, Group(a), reason,
                                Select(rid), EmptyData))
       ELSE tasks' = tasks    \* "Txn not found."
    /\ UNCHANGED <<db, user_data, conv, live, nextMsg, dm>>

\* Lines 259-262 write context.user_data, the dict of the clicking user.
\* Line 262 reads transaction.photo_file_id, which is no attribute of
\* Transaction: it raises for every reason but wrong_slip.
ResubmitData(tx, reason) ==
    [mode |-> "update", request_id |-> tx.request_id,
     xbet_id |-> IF reason # "wrong_id" THEN tx.xbet_id_from_user ELSE <<>>,
     amount |-> IF reason # "wrong_amount" THEN DecimalAmount(tx.amount)
                ELSE NoAmount,
     photo_id |-> ""]

ResubmitRaises(reason) ==
    reason # "wrong_slip" /\ "photo_file_id" \notin TransactionColumns

\* Lines 265-271.
NextState(reason) ==
    IF reason = "wrong_id" THEN ASKING_ID
    ELSE IF reason = "wrong_amount" THEN ASKING_AMOUNT
    ELSE IF reason = "wrong_slip" THEN ASKING_SCREENSHOT
    ELSE END

\* Lines 248-274: the old group message is deleted, the notice is posted to
\* the group, the session is written, and the returned state becomes the state
\* of the (group chat, admin) key.
resubmission_apply(t) ==
    /\ t \in Running /\ t.h = "resubmit" /\ t.pc = "notify"
    /\ live' = live \ {t.tx.admin_message_id}
    /\ IF t.tx.admin_chat_id = NULL
       THEN UNCHANGED <<user_data, conv, nextMsg, dm>>     \* send_message raises
       ELSE /\ nextMsg' = nextMsg + 1
            /\ user_data' = [user_data EXCEPT ![t.actor] =
                                ResubmitData(t.tx, t.reason)]
            /\ conv' = IF ResubmitRaises(t.reason) THEN conv
                       ELSE [conv EXCEPT ![t.key] = NextState(t.reason)]
            /\ dm' = IF ResubmitRaises(t.reason) THEN dm
                     ELSE dm (+) Notice(t.tx.user_id, "returned", t.tx.request_id)
    /\ tasks' = Retire(t)
    /\ UNCHANGED <<db, events, last>>

\* ------------------------------------------------------------------------
\* Updates no handler takes, and the conversation timeout
\* ------------------------------------------------------------------------
\* process_update finds no handler whose check_update accepts the update
\* (lines 285-298): nothing runs.
ignored(key, kind) ==
    /\ Received(key, kind, "none")
    /\ UNCHANGED <<db, user_data, conv, live, nextMsg, tasks, dm>>

\* Mutant of conversation_timeout: the job leaves the conversation at its step.
conversation_timeout_KeepsStep(key) ==
    /\ conv[key] # END
    /\ Delivered
    /\ UNCHANGED <<db, user_data, conv, live, nextMsg, tasks, last, dm>>

\* conversation_timeout=600 (line 292): the job scheduled for a key that is in
\* a state ends that conversation (the application is taken to run with the
\* job queue the option needs).  No handler is registered for the TIMEOUT
\* state, so context.user_data is left as it is.
conversation_timeout(key) ==
    /\ conv[key] # END
    /\ Delivered
    /\ conv' = [conv EXCEPT ![key] = END]
    /\ UNCHANGED <<db, user_data, live, nextMsg, tasks, last, dm>>

\* ------------------------------------------------------------------------
\* The store outside the process
\* ------------------------------------------------------------------------
\* A stored row disappears (the data loss that the tests `if transaction` of
\* line 75 and `if not transaction` of line 244 provide for).
row_lost(r) ==
    /\ r \in db
    /\ Delivered
    /\ db' = db \ {r}
    /\ UNCHANGED <<user_data, conv, live, nextMsg, tasks, last, dm>>

\* ------------------------------------------------------------------------
\* Specification
\* ------------------------------------------------------------------------
Next ==
    \/ \E p \in Persons : deposit_start(p)
    \/ \E p \in Persons, x \in XbetTexts : receive_xbet_id(p, x)
    \/ \E p \in Persons, x \in AmountTexts : receive_amount(p, x)
    \/ \E p \in Persons, f \in Photos : receive_screenshot(p, f)
    \/ \E k \in ConvKeys : cancel(k)
    \/ \E a \in Admins, rid \in RequestIds : lock_request(a, rid)
    \/ \E a \in Admins, rid \in RequestIds : approve_request(a, rid)
    \/ \E a \in Admins, rid \in RequestIds : reject_request_options(a, rid)
    \/ \E a \in Admins, c \in ReasonCodes, rid \in RequestIds :
          request_resubmission(a, c, rid)
    \/ \E t \in Running : lock_commit(t)
    \/ \E t \in Running : approve_commit(t)
    \/ \E t \in Running : reject_markup(t)
    \/ \E t \in Running : resubmission_apply(t)
    \/ \E t \in Running : finalize_commit(t)
    \/ \E t \in Running, sent \in BOOLEAN : finalize_notify(t, sent)
    \/ \E t \in Running : finalize_finally(t)
    \/ \E k \in ConvKeys : \E u \in Updates(k) : ignored(k, u)
    \/ \E k \in ConvKeys : conversation_timeout(k)
    \/ \E r \in db : row_lost(r)

Spec == Init /\ [][Next]_vars

\* ------------------------------------------------------------------------
\* Claims
\* ------------------------------------------------------------------------
RowOf(pk, table) ==
    IF \E r \in table : r.transaction_id = pk
    THEN CHOOSE r \in table : r.transaction_id = pk
    ELSE NoRow

\* C1: of the claims (lock_req) issued against a pending request only one
\* succeeds: a claim that writes the row finds it still pending in the store,
\* so that the claiming admin stored by the winner is never overwritten.
C1_SingleClaimWins ==
    [][\A t \in Running :
         (lock_commit(t) /\ db' # db)
            => Stored(t.tx.transaction_id).status = "pending"]_vars

\* C2: approve, reject_req and resubmit are accepted (run past their test)
\* only for the admin who holds the locked request; for any other admin the
\* handler is refused and sets nothing in motion.
C2_OnlyClaimantDecides ==
    \A t \in Running :
        (t.h \in {"approve", "reject", "resubmit"} /\ t.tx.admin_id # NULL)
            => OwnsLocked(t.tx, t.actor)

\* C3: once a request is approved, no step changes its status, rejection
\* reason or claiming admin.
C3_ApprovedIsFinal ==
    [][\A r \in db :
         (r.status = "approved" /\ RowOf(r.transaction_id, db') # NoRow)
            => /\ RowOf(r.transaction_id, db').status = r.status
               /\ RowOf(r.transaction_id, db').rejection_reason = r.rejection_reason
               /\ RowOf(r.transaction_id, db').admin_id = r.admin_id]_vars

\* C4: a request is created pending, and its stored status changes only by
\* pending -> locked, locked -> approved, locked -> rejected, rejected -> pending.
AllowedTransitions ==
    {<<"pending", "locked">>, <<"locked", "approved">>, <<"locked", "rejected">>,
     <<"rejected", "pending">>}

C4_OnlyFourTransitions ==
    [][\A r2 \in db' :
         IF RowOf(r2.transaction_id, db) = NoRow THEN r2.status = "pending"
         ELSE \/ r2.status = RowOf(r2.transaction_id, db).status
              \/ <<RowOf(r2.transaction_id, db).status, r2.status>>
                    \in AllowedTransitions]_vars

\* C5: a request has a claiming admin exactly when it is locked, approved or
\* rejected.
C5_ClaimantIffDecided ==
    \A r \in db :
        (r.admin_id # NULL) <=> (r.status \in {"locked", "approved", "rejected"})

\* C6: a correction that is stored leaves the same request pending with no
\* claiming admin, its owner and request id kept and at most the one flagged
\* field (ID or amount) replaced.
C6_FieldPreservingCorrection ==
    [][\A t \in Running :
         (finalize_commit(t) /\ t.ud.mode = "update" /\ db' # db)
            => LET old == Stored(t.tx.transaction_id)
                   new == RowOf(t.tx.transaction_id, db')
               IN /\ new.status = "pending"
                  /\ new.admin_id = NULL
                  /\ new.request_id = old.request_id
                  /\ new.user_id = old.user_id
                  /\ new.amount = old.amount
                        \/ new.xbet_id_from_user = old.xbet_id_from_user]_vars

\* C7: a correcting session (mode update, target request id) is held by the
\* owning user of the request it targets.
C7_SessionBelongsToOwner ==
    \A p \in Persons :
        (user_data[p].mode = "update" /\ Select(user_data[p].request_id) # NoRow)
            => Select(user_data[p].request_id).user_id = p

\* C8: when the claiming admin of a locked request picks a rejection reason,
\* the stored request becomes rejected and carries the reason.
C8_RejectStoresReason ==
    [][\A t \in Running :
         (resubmission_apply(t) /\ OwnsLocked(Stored(t.tx.transaction_id), t.actor))
            => /\ RowOf(t.tx.transaction_id, db').status = "rejected"
               /\ RowOf(t.tx.transaction_id, db').rejection_reason # NULL]_vars

\* C9: no step of a correction being finalized adds or removes a request;
\* every request keeps its request id and owner, and every request other than
\* the targeted one is left exactly as it was.
CorrectionStep(t) ==
    /\ t.h = "finalize" /\ t.ud.mode = "update"
    /\ \/ finalize_commit(t)
       \/ finalize_notify(t, TRUE)
       \/ finalize_notify(t, FALSE)
       \/ finalize_finally(t)

C9_CorrectionFrame ==
    [][\A t \in Running :
         CorrectionStep(t)
            => /\ {r.transaction_id : r \in db'} = {r.transaction_id : r \in db}
               /\ \A r \in db :
                    /\ RowOf(r.transaction_id, db').request_id = r.request_id
                    /\ RowOf(r.transaction_id, db').user_id = r.user_id
                    /\ r.request_id # t.ud.request_id
                          => RowOf(r.transaction_id, db') = r]_vars

\* A correction has been committed to its target while another request is stored.
C9_Witness ==
    \E t \in Running :
        /\ t.h = "finalize" /\ t.pc = "notify" /\ t.ud.mode = "update"
        /\ Stored(t.tx.transaction_id) = t.tx
        /\ t.tx.status = "pending"
        /\ t.tx.xbet_id_from_user = <<"7">>
        /\ \E r \in db : r.request_id # t.ud.request_id

\* C10: when finalization deletes the previous admin-group message and no
\* replacement can be sent, the stored message handle is cleared.
C10_HandleClearedOnFailedSend ==
    [][\A t \in Running :
         (/\ finalize_notify(t, FALSE)
          /\ user_data[t.actor].mode = "update"
          /\ t.tx.admin_chat_id # NULL
          /\ t.tx.admin_message_id \in live)
            => RowOf(t.tx.transaction_id, db').admin_message_id = 0]_vars

\* A photo, or a text, arrives in the private chat of p.
photo_message(p) ==
    \/ \E f \in Photos : receive_screenshot(p, f)
    \/ ignored(Private(p), "photo")

text_message(p) ==
    \/ \E x \in XbetTexts : receive_xbet_id(p, x)
    \/ \E x \in AmountTexts : receive_amount(p, x)
    \/ ignored(Private(p), "text")

\* C11: a photo that arrives while the form awaits the ID or the amount, and
\* a text that arrives while it awaits the photo, changes no step, no collected
\* field and no request and starts no handler; a form in mode new goes from
\* the ID step to the amount step and from the amount step to the photo step.
C11_OutOfOrderIgnored ==
    [][\A p \in Persons :
         /\ ((\/ conv[Private(p)] \in {ASKING_ID, ASKING_AMOUNT} /\ photo_message(p)
              \/ conv[Private(p)] = ASKING_SCREENSHOT /\ text_message(p))
               => /\ conv' = conv /\ user_data' = user_data
                  /\ db' = db /\ tasks' = tasks)
         /\ ((user_data[p].mode = "new" /\ \E x \in XbetTexts : receive_xbet_id(p, x))
               => conv'[Private(p)] = ASKING_AMOUNT)
         /\ ((user_data[p].mode = "new" /\ \E x \in AmountTexts : receive_amount(p, x))
               => conv'[Private(p)] = ASKING_SCREENSHOT)]_vars

\* The form of u1 awaits the amount, and the photo u1 sent last went to no
\* handler.
C11_Witness ==
    /\ last = [update |-> "photo", key |-> Private("u1"), handler |-> "none"]
    /\ conv[Private("u1")] = ASKING_AMOUNT
    /\ user_data["u1"] = [EmptyData EXCEPT !.mode = "new", !.xbet_id = <<"7">>]

\* C12: a text that is no non-negative decimal, received at the amount step,
\* leaves the form at the amount step with its collected fields as they were,
\* and no stored request ever has a negative amount.
C12_BadAmountReprompts ==
    [][/\ \A p \in Persons : \A x \in AmountTexts :
            (receive_amount(p, x) /\ (~float(x).ok \/ float(x).val < 0))
               => /\ conv'[Private(p)] = ASKING_AMOUNT
                  /\ user_data'[p] = user_data[p]
       /\ \A r \in db' : r.amount >= 0]_vars

\* C13: a click on the Deposit button by a user, whatever the state of that
\* user's form, leaves the user with a form in mode new at the ID step and no
\* collected field.
C13_BeginAlwaysRestarts ==
    [][\A p \in Persons :
         (deposit_start(p) \/ ignored(Private(p), "deposit_start"))
            => /\ user_data'[p] = [EmptyData EXCEPT !.mode = "new"]
               /\ conv'[Private(p)] = ASKING_ID]_vars

C15_TimedOutSessionUnusable ==
    [][/\ \A k \in ConvKeys :
            conversation_timeout(k)
               => conv'[k] = END /\ db' = db /\ tasks' = tasks
       /\ \A p \in Persons :
            conv[Private(p)] = END
               => /\ (last'.key = Private(p) /\ (photo_message(p) \/ text_message(p)))
                        => /\ conv' = conv /\ user_data' = user_data
                           /\ db' = db /\ tasks' = tasks
                  /\ deposit_start(p)
                        => /\ user_data'[p] = [EmptyData EXCEPT !.mode = "new"]
                           /\ conv'[Private(p)] = ASKING_ID]_vars

\* The form of u1 timed out after the ID was collected (the conversation is
\* ended, the field is still in user_data, no handler is in flight), and the
\* text u1 sent afterwards went to no handler.
C15_Witness ==
    /\ conv[Private("u1")] = END
    /\ user_data["u1"] = [EmptyData EXCEPT !.mode = "new", !.xbet_id = <<"7">>]
    /\ tasks = EmptyBag
    /\ last = [update |-> "text", key |-> Private("u1"), handler |-> "none"]

\* C16: the user of a request is sent at most one approval message for it,
\* and has been sent one whenever the stored request is approved.
C16_SingleApprovalNotice ==
    /\ \A m \in BagToSet(dm) : m.kind = "approved" => CopiesIn(m, dm) = 1
    /\ \A r \in db :
          r.status = "approved"
             => CopiesIn([to |-> r.user_id, kind |-> "approved",
                          rid |-> r.request_id], dm) >= 1

\* C17: a handler that changes the stored status of a request sends a direct
\* message to the user of that request.  Stated for the handlers that end
\* with the step that writes the status (claim and approval).
C17_StatusChangeNotifiesOwner ==
    [][\A t \in Running :
         ((lock_commit(t) \/ approve_commit(t))
          /\ Stored(t.tx.transaction_id) # NoRow
          /\ RowOf(t.tx.transaction_id, db').status
                # Stored(t.tx.transaction_id).status)
            => \E k \in {"submitted", "approved", "returned"} :
                  dm' = dm (+) Notice(t.tx.user_id, k, t.tx.request_id)]_vars

\* C18: no two stored requests share a request id, initially and after every
\* step; and the finalization of a form in mode new, whatever id
\* generate_request_id drew (line 82, a stored one included), adds no request,
\* changes none and leaves no handler in flight.
C18_RequestIdsUnique ==
    /\ \A r1, r2 \in db : r1.request_id = r2.request_id => r1 = r2
    /\ [][/\ \A r1, r2 \in db' : r1.request_id = r2.request_id => r1 = r2
           /\ \A p \in Persons :
                (user_data[p].mode # "update"
                 /\ \E f \in Photos : receive_screenshot(p, f))
                   => db' = db /\ tasks' = tasks]_vars

\* The form of u1 in mode new has been finalized (the photo was the last
\* message and receive_screenshot took it; nothing of the form is left) while
\* both ids the generator can draw are stored.
C18_Witness ==
    /\ last = [update |-> "photo", key |-> Private("u1"),
               handler |-> "receive_screenshot"]
    /\ conv[Private("u1")] = END
    /\ user_data["u1"] = EmptyData
    /\ tasks = EmptyBag
    /\ {r.request_id : r \in db} = RequestIds

\* C19: a button token outside the grammar changes nothing: a token no
\* pattern matches runs no handler, and a resubmit token whose reason code is
\* not a recognised one changes no request, no session or collected field
\* and no message of the admin group.
C19_UnknownTokenNoOp ==
    [][/\ \A k \in ConvKeys :
            ignored(k, "token")
               => UNCHANGED <<db, user_data, conv, live, nextMsg, tasks, dm>>
       /\ \A t \in Running :
            (resubmission_apply(t) /\ t.reason \notin reasons)
               => UNCHANGED <<db, user_data, conv, live, nextMsg, dm>>]_vars

\* C20: when a run of finalize_submission ends, in mode new or update and
\* whatever became of its store writes and notifications, the collected
\* fields of its user are cleared and the conversation it was called in is
\* ended.
C20_FinalizationDestroysSession ==
    [][/\ \A t \in Running :
            (t.h = "finalize" /\ tasks' = Retire(t))
               => user_data'[t.actor] = EmptyData /\ conv'[t.key] = END
       /\ \A p \in Persons :
            (tasks' = tasks /\ \E f \in Photos : receive_screenshot(p, f))
               => user_data'[p] = EmptyData /\ conv'[Private(p)] = END]_vars

\* A correction was committed (the new ID is stored), its admin-group photo
\* could not be sent (the stored handle names a deleted message, no
\* "submitted" message went out), and the run has ended: no handler is in
\* flight, no field is left, every private conversation is ended.
C20_Witness ==
    /\ \E r \in db : /\ r.xbet_id_from_user = <<"7">>
                      /\ r.admin_message_id \notin live
    /\ \A m \in BagToSet(dm) : m.kind # "submitted"
    /\ tasks = EmptyBag
    /\ \A p \in Persons : user_data[p] = EmptyData /\ conv[Private(p)] = END

\* C21: the finalization of a form in mode new creates one request: when
\* receive_screenshot takes the photo of such a form whose amount is a number,
\* the run either goes on to its commit or has stored the record already, and
\* the commit of such a run adds exactly one row, pending, with no claiming
\* admin and no rejection reason, owned by the submitting user, holding the ID
\* and the amount of the form, and leaves every stored row as it was.
C21_NewRequestCreated ==
    [][/\ \A p \in Persons :
            (/\ user_data[p].mode = "new"
             /\ NewAmount(user_data[p].amount).ok
             /\ \E f \in Photos : receive_screenshot(p, f))
               => tasks' # tasks \/ Cardinality(db') = Cardinality(db) + 1
       /\ \A t \in Running :
            (t.h = "finalize" /\ t.ud.mode = "new" /\ finalize_commit(t))
               => \E row \in db' \ db :
                     /\ db' = db \cup {row}
                     /\ row.status = "pending"
                     /\ row.admin_id = NULL
                     /\ row.rejection_reason = NULL
                     /\ row.user_id = t.actor
                     /\ row.xbet_id_from_user = t.ud.xbet_id
                     /\ row.amount = NewAmount(t.ud.amount).val]_vars

====
